---- MODULE Spec2Model ----
(***************************************************************************)
(* Self-play worker of chess_zero (src/src/chess_zero/worker/self_play.py). *)
(*                                                                         *)
(* SelfPlayWorker.start is the Orchestrator: it submits self_play_buffer   *)
(* games to a ProcessPoolExecutor, takes their results in FIFO order,      *)
(* accumulates the records in self.buffer and flushes the buffer to a      *)
(* writer thread every nb_game_in_file games.  self_play_buffer is one     *)
(* GameSession: it borrows a channel from the shared list cur_pipes, plays *)
(* the game and gives the channel back.                                    *)
(***************************************************************************)
EXTENDS Integers, Sequences, FiniteSets, TLC

\* ---------------------------------------------------------------- bounds
\* config.play.max_processes: size of the worker pool and of cur_pipes.
MaxProcesses == 1
\* config.play.max_game_length.
MaxGameLength == 2
\* config.play_data.nb_game_in_file.
NbGameInFile == 2
\* Number of games the model lets the Orchestrator submit in all.
MaxGames == 4
\* Cap on the failed plays a game recovers from: a legal move is explored only
\* while total_failed_plays is at most this (the counter is unbounded in the code).
MaxRecoveredFailures == 1
\* config.play_data.max_file_num.
MaxFileNum == 2
\* Largest number of play-data files the retention sweep is given.
MaxFileId == 6

\* ------------------------------------------------------ program constants
\* Consecutive failed plays after which the game is adjudicated (line 163).
FailedPlayLimit == 50

\* Mutant of InitialSubmits: the full-width burst the commented-out line 58 has.
InitialSubmitsWide == MaxProcesses + 1
\* Games submitted before the loop: range(1) at line 59.
InitialSubmits == 1

Games == 1..MaxGames
Channels == 1..MaxProcesses

VARIABLES
    \* ---- SelfPlayWorker (the Orchestrator)
    orchPc,       \* position of start(): "init","wait","flush","reload","submit",
                  \* "crashed","aborted"; of remove_play_data: "sweep","swept"
    cur_pipes,    \* self.cur_pipes: the shared list of channels
    lists,        \* the list objects self.buffer has referred to, by object id
    buffer,       \* self.buffer: the id of the list object it refers to
    futures,      \* the deque of outstanding futures (game ids, oldest first)
    game_idx,     \* game_idx of the loop
    submitted,    \* number of executor.submit calls so far
    consumed,     \* the games whose result() the loop has taken, in order
    threads,      \* the writer threads started by flush_buffer
    files,        \* the files written by the writer threads
    listed,       \* the listing remove_play_data took (its local files, line 107)
    \* ---- one self_play_buffer call per game id
    gstate,       \* "unsubmitted","queued","playing","returned","failed"
    pipes,        \* the channel the game holds (local pipes), as a set: {} or {c}
    env,          \* the game's ChessEnv
    move, failed_play, total_failed_plays,
    white_moves, black_moves,      \* white.moves, black.moves
    result        \* what the game's future carries: an exception, or the data returned

orchVars == <<orchPc, cur_pipes, lists, buffer, futures, game_idx, submitted,
              consumed, threads, files, listed>>
gameVars == <<gstate, pipes, env, move, failed_play, total_failed_plays,
              white_moves, black_moves, result>>
vars == <<orchPc, cur_pipes, lists, buffer, futures, game_idx, submitted,
          consumed, threads, files, listed, gstate, pipes, env, move, failed_play,
          total_failed_plays, white_moves, black_moves, result>>

\* ------------------------------------------------------------- helpers
Range(s) == {s[i] : i \in 1..Len(s)}

NoDup(s) == \A i, j \in 1..Len(s) : i # j => s[i] # s[j]

RECURSIVE Flatten(_)
Flatten(ss) == IF ss = <<>> THEN <<>> ELSE Head(ss) \o Flatten(Tail(ss))

\* ChessEnv().reset(): line 124.
NewEnv == [done |-> FALSE, num_halfmoves |-> 0, adjudicated |-> FALSE]

\* env.white_to_move, read at line 140: white moves on even plies.
WhiteToMove(e) == e.num_halfmoves % 2 = 0

\* Mutant of PoolAfterBorrow: the channel is read but left in the list.
PoolAfterPeek(cur) == cur
\* cur.pop() at line 123: the list without its last element.
PoolAfterBorrow(cur) == SubSeq(cur, 1, Len(cur) - 1)

\* cur.pop() at line 123: the element it returns.
Borrowed(cur) == cur[Len(cur)]

\* Mutant of PoolAfterRelease: the game returns without giving the channel back.
PoolAfterNoRelease(cur, p) == cur
\* cur.append(pipes) at line 199.
PoolAfterRelease(cur, p) == Append(cur, p)

\* Mutant of Interleave: black's record is appended before white's.
RECURSIVE InterleaveBlackFirst(_, _)
InterleaveBlackFirst(w, b) ==
    IF w = <<>> THEN <<>>
    ELSE IF b = <<>> THEN <<Head(w)>> \o InterleaveBlackFirst(Tail(w), <<>>)
    ELSE <<Head(b), Head(w)>> \o InterleaveBlackFirst(Tail(w), Tail(b))
\* Lines 193-197: white's i-th record, then black's i-th if there is one.
RECURSIVE Interleave(_, _)
Interleave(w, b) ==
    IF w = <<>> THEN <<>>
    ELSE IF b = <<>> THEN <<Head(w)>> \o Interleave(Tail(w), <<>>)
    ELSE <<Head(w), Head(b)>> \o Interleave(Tail(w), Tail(b))

\* Mutant of FlushDue: flushes once the count has passed nb_game_in_file.
FlushDueAfter(idx) == idx >= NbGameInFile
\* Line 72: (game_idx % nb_game_in_file) == 0.
FlushDue(idx) == (idx % NbGameInFile) = 0

\* Mutant of BufferAfterFlush: self.buffer is not rebound after the flush.
BufferKept(ls, buf) == buf
\* Line 101: self.buffer = [] rebinds self.buffer to a fresh list object.
BufferAfterFlush(ls, buf) == Len(ls) + 1

\* Line 101: the fresh, empty list object.
ListsAfterFlush(ls) == Append(ls, <<>>)

\* Line 71: self.buffer += data extends the list object in place.
ListsAfterExtend(ls, buf, data) == [ls EXCEPT ![buf] = @ \o data]

\* Mutant of FaultOutcome: the fault is swallowed and the partial records returned.
FaultOutcomePartial(w, b) == [exc |-> FALSE, data |-> Interleave(w, b)]
\* An exception leaving self_play_buffer: the future carries it, no data.
FaultOutcome(w, b) == [exc |-> TRUE, data |-> <<>>]

\* The record a side's selector keeps for the ply it played.
PlyRecord(g, side, i) == <<g, side, i>>

\* Mutant of MovesAfterIllegal: the selector records every action it is asked for.
MovesAfterAnyAction(ms, g, side) == Append(ms, PlyRecord(g, side, Len(ms) + 1))
\* A side's moves after an action that env.step refused: records are kept per
\* ply played, so the refused action leaves none.
MovesAfterIllegal(ms, g, side) == ms

\* Mutant of FailedAfterIllegal: the consecutive counter is not incremented.
FailedNotCounted(f) == f
\* Line 161: failed_play += 1.
FailedAfterIllegal(f) == f + 1

\* Mutant of AdjudicateOnFailure: the threshold is passed before it is seen.
AdjudicateOnFailureLate(f) == f > FailedPlayLimit
\* Line 163: failed_play == 50.
AdjudicateOnFailure(f) == f = FailedPlayLimit

\* Mutant of LengthReached: the limit has to be exceeded, not reached.
LengthExceeded(n) == n > MaxGameLength
\* Line 158: env.num_halfmoves >= config.play.max_game_length.
LengthReached(n) == n >= MaxGameLength

\* Mutant of FuturesAfterTake: the oldest future is read but left in the deque.
FuturesAfterPeek(fs) == fs
\* Line 65: futures.popleft() removes the oldest future.
FuturesAfterTake(fs) == Tail(fs)

\* Line 65: futures.popleft() returns the oldest future.
TakenFuture(fs) == Head(fs)

\* Mutant of InitialPool: one channel fewer than worker processes.
InitialPoolShort == [i \in 1..(MaxProcesses - 1) |-> i]
\* Line 47: one channel per worker process, range(max_processes).
InitialPool == [i \in 1..MaxProcesses |-> i]

\* ---------------------------------------------------------------- Init
\* After SelfPlayWorker.__init__ (lines 43-48).
Init ==
    /\ orchPc = "init"
    /\ cur_pipes = InitialPool
    /\ lists = << <<>> >>
    /\ buffer = 1
    /\ futures = <<>>
    /\ game_idx = 0
    /\ submitted = 0
    /\ consumed = <<>>
    /\ threads = <<>>
    /\ files = <<>>
    /\ listed = <<>>
    /\ gstate = [g \in Games |-> "unsubmitted"]
    /\ pipes = [g \in Games |-> {}]
    /\ env = [g \in Games |-> NewEnv]
    /\ move = [g \in Games |-> 0]
    /\ failed_play = [g \in Games |-> 0]
    /\ total_failed_plays = [g \in Games |-> 0]
    /\ white_moves = [g \in Games |-> <<>>]
    /\ black_moves = [g \in Games |-> <<>>]
    /\ result = [g \in Games |-> [exc |-> FALSE, data |-> <<>>]]

\* ------------------------------------------------------- GameSession
Running == {g \in Games : gstate[g] = "playing"}

ResetLocals(g) ==
    /\ move' = [move EXCEPT ![g] = 0]
    /\ failed_play' = [failed_play EXCEPT ![g] = 0]
    /\ total_failed_plays' = [total_failed_plays EXCEPT ![g] = 0]
    /\ white_moves' = [white_moves EXCEPT ![g] = <<>>]
    /\ black_moves' = [black_moves EXCEPT ![g] = <<>>]

\* A worker process takes the oldest queued game and runs lines 123-133.
\* pop() on an empty list raises IndexError, which ends the game.
GameBorrow(g) ==
    /\ gstate[g] = "queued"
    /\ orchPc # "aborted"
    /\ \A h \in Games : gstate[h] = "queued" => g <= h
    /\ Cardinality(Running) < MaxProcesses
    /\ IF cur_pipes = <<>>
       THEN /\ gstate' = [gstate EXCEPT ![g] = "failed"]
            /\ result' = [result EXCEPT ![g] = FaultOutcome(<<>>, <<>>)]
            /\ UNCHANGED <<cur_pipes, pipes>>
       ELSE /\ pipes' = [pipes EXCEPT ![g] = {Borrowed(cur_pipes)}]
            /\ cur_pipes' = PoolAfterBorrow(cur_pipes)
            /\ gstate' = [gstate EXCEPT ![g] = "playing"]
            /\ UNCHANGED result
    /\ env' = [env EXCEPT ![g] = NewEnv]
    /\ ResetLocals(g)
    /\ UNCHANGED <<orchPc, lists, buffer, futures, game_idx, submitted,
                   consumed, threads, files, listed>>

\* One iteration of the loop, lines 134-166, in which env.step succeeds.
\* over: the rules engine reports the game finished by this ply.
StepLegal(g, over) ==
    /\ gstate[g] = "playing"
    /\ ~env[g].done
    /\ total_failed_plays[g] <= MaxRecoveredFailures
    /\ IF WhiteToMove(env[g])
       THEN /\ white_moves' = [white_moves EXCEPT ![g] =
                  Append(@, PlyRecord(g, "w", Len(@) + 1))]
            /\ UNCHANGED black_moves
       ELSE /\ black_moves' = [black_moves EXCEPT ![g] =
                  Append(@, PlyRecord(g, "b", Len(@) + 1))]
            /\ UNCHANGED white_moves
    /\ failed_play' = [failed_play EXCEPT ![g] = 0]
    /\ move' = [move EXCEPT ![g] = @ + 1]
    /\ LET n == env[g].num_halfmoves + 1
           adj == LengthReached(n)
       IN env' = [env EXCEPT ![g] = [done |-> over \/ adj, num_halfmoves |-> n,
                                     adjudicated |-> adj]]
    /\ UNCHANGED <<orchVars, gstate, pipes, total_failed_plays, result>>

\* One iteration of the loop in which env.step raises ValueError (160-166).
StepIllegal(g) ==
    /\ gstate[g] = "playing"
    /\ ~env[g].done
    /\ IF WhiteToMove(env[g])
       THEN /\ white_moves' = [white_moves EXCEPT ![g] = MovesAfterIllegal(@, g, "w")]
            /\ UNCHANGED black_moves
       ELSE /\ black_moves' = [black_moves EXCEPT ![g] = MovesAfterIllegal(@, g, "b")]
            /\ UNCHANGED white_moves
    /\ failed_play' = [failed_play EXCEPT ![g] = FailedAfterIllegal(@)]
    /\ total_failed_plays' = [total_failed_plays EXCEPT ![g] = @ + 1]
    /\ LET adj == AdjudicateOnFailure(FailedAfterIllegal(failed_play[g]))
       IN env' = [env EXCEPT ![g] = [@ EXCEPT !.done = adj, !.adjudicated = adj]]
    /\ UNCHANGED <<orchVars, gstate, pipes, move, result>>

\* A selector call (action at 145/151, finish_game at 190-191) raises something
\* the loop does not catch: the exception leaves self_play_buffer.
SelectorFault(g) ==
    /\ gstate[g] = "playing"
    /\ gstate' = [gstate EXCEPT ![g] = "failed"]
    /\ result' = [result EXCEPT ![g] = FaultOutcome(white_moves[g], black_moves[g])]
    /\ ResetLocals(g)
    /\ UNCHANGED <<orchVars, pipes, env>>

\* Lines 169-200: the loop is left, the records are interleaved, the channel
\* is given back and (env, data) returned.
GameFinish(g) ==
    /\ gstate[g] = "playing"
    /\ env[g].done
    /\ result' = [result EXCEPT ![g] =
          [exc |-> FALSE, data |-> Interleave(white_moves[g], black_moves[g])]]
    /\ cur_pipes' = PoolAfterRelease(cur_pipes, CHOOSE c \in pipes[g] : TRUE)
    /\ pipes' = [pipes EXCEPT ![g] = {}]
    /\ gstate' = [gstate EXCEPT ![g] = "returned"]
    /\ ResetLocals(g)
    /\ UNCHANGED <<orchPc, lists, buffer, futures, game_idx, submitted,
                   consumed, threads, files, listed, env>>

\* ------------------------------------------------------- Orchestrator
Submit(n) ==
    /\ futures' = futures \o [i \in 1..n |-> submitted + i]
    /\ gstate' = [g \in Games |->
                    IF g \in (submitted + 1)..(submitted + n) THEN "queued"
                    ELSE gstate[g]]
    /\ submitted' = submitted + n

\* Lines 54-61: the buffer is a new list, the first games are submitted.
OrchStart ==
    /\ orchPc = "init"
    /\ lists' = Append(lists, <<>>)
    /\ buffer' = Len(lists) + 1
    /\ Submit(InitialSubmits)
    /\ game_idx' = 0
    /\ orchPc' = "wait"
    /\ UNCHANGED <<cur_pipes, consumed, threads, files, listed, pipes, env, move,
                   failed_play, total_failed_plays, white_moves, black_moves,
                   result>>

\* Lines 63-72: result() of the oldest future; it re-raises the game's
\* exception, which leaves the loop and start().
OrchConsume ==
    /\ orchPc = "wait"
    /\ futures # <<>>
    /\ LET g == TakenFuture(futures)
       IN /\ gstate[g] \in {"returned", "failed"}
          /\ futures' = FuturesAfterTake(futures)
          /\ game_idx' = game_idx + 1
          /\ consumed' = Append(consumed, g)
          /\ IF result[g].exc
             THEN /\ orchPc' = "crashed"
                  /\ UNCHANGED lists
             ELSE /\ lists' = ListsAfterExtend(lists, buffer, result[g].data)
                  /\ orchPc' = IF FlushDue(game_idx + 1) THEN "flush" ELSE "submit"
    /\ UNCHANGED <<cur_pipes, buffer, submitted, threads, files, listed, gameVars>>

\* flush_buffer, lines 91-101, called at line 73.
OrchFlush ==
    /\ orchPc = "flush"
    /\ threads' = Append(threads, [args |-> buffer, status |-> "running"])
    /\ lists' = ListsAfterFlush(lists)
    /\ buffer' = BufferAfterFlush(lists, buffer)
    /\ orchPc' = "reload"
    /\ UNCHANGED <<cur_pipes, futures, game_idx, submitted, consumed, files, listed,
                   gameVars>>

\* Line 74: reload_best_model_weight_if_changed(self.current_model).
OrchReload ==
    /\ orchPc = "reload"
    /\ orchPc' = "submit"
    /\ UNCHANGED <<cur_pipes, lists, buffer, futures, game_idx, submitted,
                   consumed, threads, files, listed, gameVars>>

\* Line 75: the replacement game.
OrchSubmit ==
    /\ orchPc = "submit"
    /\ submitted < MaxGames
    /\ Submit(1)
    /\ orchPc' = "wait"
    /\ UNCHANGED <<cur_pipes, lists, buffer, game_idx, consumed, threads,
                   files, listed, pipes, env, move, failed_play, total_failed_plays,
                   white_moves, black_moves, result>>

\* An abort signal: the worker has no exit from its loop and is stopped by an
\* interrupt of its process group.  KeyboardInterrupt is raised in start(),
\* where nothing catches it, and in every running self_play_buffer, where the
\* except ValueError of line 160 does not catch it either.
OrchAbort ==
    /\ orchPc \in {"wait", "flush", "reload", "submit"}
    /\ orchPc' = "aborted"
    /\ gstate' = [g \in Games |-> IF gstate[g] = "playing" THEN "failed" ELSE gstate[g]]
    /\ move' = [g \in Games |-> 0]
    /\ failed_play' = [g \in Games |-> 0]
    /\ total_failed_plays' = [g \in Games |-> 0]
    /\ white_moves' = [g \in Games |-> <<>>]
    /\ black_moves' = [g \in Games |-> <<>>]
    /\ result' = [g \in Games |->
                    IF gstate[g] = "playing"
                    THEN FaultOutcome(white_moves[g], black_moves[g])
                    ELSE result[g]]
    /\ UNCHANGED <<cur_pipes, lists, buffer, futures, game_idx, submitted,
                   consumed, threads, files, listed, pipes, env>>

\* ------------------------------------------------------- writer threads
\* write_game_data_to_file(path, buffer) in the thread of line 99 succeeds:
\* it writes the list object it was given, as it is when the thread runs.
WriterWrite(t) ==
    /\ threads[t].status = "running"
    /\ threads' = [threads EXCEPT ![t].status = "written"]
    /\ files' = Append(files, [thread |-> t, records |-> lists[threads[t].args]])
    /\ UNCHANGED <<orchPc, listed, cur_pipes, lists, buffer, futures, game_idx,
                   submitted, consumed, gameVars>>

\* The write raises in the thread: nothing is written, nobody is told.
WriterFail(t) ==
    /\ threads[t].status = "running"
    /\ threads' = [threads EXCEPT ![t].status = "failed"]
    /\ UNCHANGED <<orchPc, cur_pipes, lists, buffer, futures, game_idx,
                   submitted, consumed, files, listed, gameVars>>

Next ==
    \/ OrchStart
    \/ OrchConsume
    \/ OrchFlush
    \/ OrchReload
    \/ OrchSubmit
    \/ OrchAbort
    \/ \E g \in Games : GameBorrow(g)
    \/ \E g \in Games, over \in BOOLEAN : StepLegal(g, over)
    \/ \E g \in Games : StepIllegal(g)
    \/ \E g \in Games : SelectorFault(g)
    \/ \E g \in Games : GameFinish(g)
    \/ \E t \in 1..Len(threads) : WriterWrite(t)
    \/ \E t \in 1..Len(threads) : WriterFail(t)

Spec == Init /\ [][Next]_vars

\* ------------------------------------------------- fault-free, fair runs
\* The steps of one self_play_buffer call from its loop to its return.
GameLoop(g) ==
    \/ \E over \in BOOLEAN : StepLegal(g, over)
    \/ StepIllegal(g)
    \/ GameFinish(g)

\* The run of the game submitted at line 59 up to the moment its result is
\* taken, when every selector call returns and no abort signal is raised.
FaultFreeNext ==
    \/ OrchStart
    \/ OrchConsume
    \/ \E g \in Games : GameBorrow(g)
    \/ \E g \in Games, over \in BOOLEAN : StepLegal(g, over)
    \/ \E g \in Games : StepIllegal(g)
    \/ \E g \in Games : GameFinish(g)

\* A worker process that runs a game keeps running it: each enabled step of
\* the game's loop is eventually taken.
FaultFreeSpec ==
    Init /\ [][FaultFreeNext]_vars /\ \A g \in Games : WF_vars(GameLoop(g))

\* ------------------------------------------------------ retention sweep
\* remove_play_data (lines 103-111) is called by nothing in this file; it is
\* run here on its own, on every directory of at most MaxFileId files.

\* The file a flush named with its time stamp (lines 94-96), records left out.
DataFile(t) == [thread |-> t, records |-> <<>>]

\* get_game_data_filenames, line 107: the files of the set, oldest first.
RECURSIVE Listing(_)
Listing(S) ==
    IF S = {} THEN <<>>
    ELSE LET t == CHOOSE x \in S : \A y \in S : x <= y
         IN <<DataFile(t)>> \o Listing(S \ {t})

\* Line 108: len(files) < max_file_num, the early return.
SweepSkips(n) == n < MaxFileNum

\* Mutant of Removed: the newest files are removed instead of the oldest.
RemovedNewest(n) == (MaxFileNum + 1)..n
\* Lines 110-111: the places of the listing os.remove is called on,
\* range(len(files) - max_file_num), counted from one.
Removed(n) == 1..(n - MaxFileNum)

\* The listing without the places in gone, order kept.
RECURSIVE Without(_, _, _)
Without(fs, gone, i) ==
    IF i > Len(fs) THEN <<>>
    ELSE (IF i \in gone THEN <<>> ELSE <<fs[i]>>) \o Without(fs, gone, i + 1)

\* The worker as constructed, about to sweep a directory of data files.
SweepInit ==
    /\ orchPc = "sweep"
    /\ \E S \in SUBSET (1..MaxFileId) : files = Listing(S)
    /\ listed = <<>>
    /\ cur_pipes = InitialPool
    /\ lists = << <<>> >>
    /\ buffer = 1
    /\ futures = <<>>
    /\ game_idx = 0
    /\ submitted = 0
    /\ consumed = <<>>
    /\ threads = <<>>
    /\ gstate = [g \in Games |-> "unsubmitted"]
    /\ pipes = [g \in Games |-> {}]
    /\ env = [g \in Games |-> NewEnv]
    /\ move = [g \in Games |-> 0]
    /\ failed_play = [g \in Games |-> 0]
    /\ total_failed_plays = [g \in Games |-> 0]
    /\ white_moves = [g \in Games |-> <<>>]
    /\ black_moves = [g \in Games |-> <<>>]
    /\ result = [g \in Games |-> [exc |-> FALSE, data |-> <<>>]]

\* remove_play_data, lines 103-111.
RemovePlayData ==
    /\ orchPc = "sweep"
    /\ listed' = files
    /\ files' = IF SweepSkips(Len(files)) THEN files
                ELSE Without(files, Removed(Len(files)), 1)
    /\ orchPc' = "swept"
    /\ UNCHANGED <<cur_pipes, lists, buffer, futures, game_idx, submitted,
                   consumed, threads, gameVars>>

SweepNext == RemovePlayData

SweepSpec == SweepInit /\ [][SweepNext]_vars

\* ------------------------------------------------------ derived notions
\* The games that hold channel c in their local pipes.
Holders(c) == {g \in Games : c \in pipes[g]}

\* The places of the shared list that hold channel c.
PoolSlots(c) == {i \in 1..Len(cur_pipes) : cur_pipes[i] = c}

\* The games between their borrow and their return, and those a fault ended.
Abandoned == {g \in Games : gstate[g] = "failed"}

\* The list object handed to writer thread t.
Batch(t) == lists[threads[t].args]

AllBatches == [t \in 1..Len(threads) |-> Batch(t)]

\* The data of the results the loop has taken, in the order it took them.
ConsumedRecords == Flatten([i \in 1..Len(consumed) |-> result[consumed[i]].data])

\* The data of the k-th group of NbGameInFile consumed results.
GroupRecords(k) ==
    Flatten([i \in 1..NbGameInFile |-> result[consumed[(k - 1) * NbGameInFile + i]].data])

InLoop == orchPc \in {"wait", "flush", "reload", "submit"}

\* ---------------------------------------------------------------- claims

\* C1: no channel is held by two games at once, and a channel a game has
\* taken from cur_pipes is not in cur_pipes while the game holds it: each
\* channel has at most one place among the pool's slots and the games' hands.
C1_ChannelHeldOnce ==
    \A c \in Channels : Cardinality(Holders(c)) + Cardinality(PoolSlots(c)) <= 1

\* C1 witness: a later game holds a channel an earlier game held and gave back.
C1_Witness ==
    \E g, h \in Games :
        /\ g < h
        /\ gstate[g] = "returned"
        /\ gstate[h] = "playing"
        /\ pipes[h] # {}

\* C2: every game that completes gives its channel back exactly once: the
\* pool never holds a channel twice, it misses exactly one channel per game
\* that has borrowed and not completed, and once every started game has
\* completed it holds every channel it started with.
C2_ReleasedExactlyOnce ==
    /\ NoDup(cur_pipes)
    /\ Range(cur_pipes) \subseteq Channels
    /\ Len(cur_pipes) + Cardinality(Running \cup Abandoned) = MaxProcesses
    /\ (Running \cup Abandoned = {} => Range(cur_pipes) = Channels)

\* C2 witness: three games have completed, one by the rules, one adjudicated at
\* the length limit and one adjudicated at the failure threshold.
C2_Witness ==
    \E g1, g2, g3 \in Games :
        /\ gstate[g1] = "returned" /\ ~env[g1].adjudicated
        /\ gstate[g2] = "returned" /\ env[g2].adjudicated
        /\ env[g2].num_halfmoves >= MaxGameLength
        /\ gstate[g3] = "returned" /\ env[g3].adjudicated
        /\ env[g3].num_halfmoves < MaxGameLength
        /\ Running = {}

\* C3 (as claimed): a game ended by a fault of its selector (no abort signal
\* was raised) has still given its channel back, so with no game running the
\* pool holds every channel.
C3_FaultReleasesChannel ==
    (Abandoned # {} /\ Running = {} /\ orchPc # "aborted") =>
        Len(cur_pipes) = MaxProcesses

\* C4 (as claimed): the loop survives the failure of a game: having taken the
\* result of a game that failed, the Orchestrator is still in its loop.
C4_FaultIsolated ==
    (\E i \in 1..Len(consumed) : result[consumed[i]].exc) => InLoop

\* C5 (as claimed): when the Orchestrator has stopped on an abort signal or
\* on an exception leaving the loop, no record is left in the buffer.
C5_ShutdownFlushes ==
    orchPc \in {"crashed", "aborted"} => lists[buffer] = <<>>

\* C6: the records the loop has taken from completed games are, in order and
\* each exactly once, the records of the flushed batches followed by those of
\* the buffer; and the buffer is empty right after a flush.
C6_RecordsConserved ==
    /\ Flatten(AllBatches) \o lists[buffer] = ConsumedRecords
    /\ NoDup(Flatten(AllBatches) \o lists[buffer])
    /\ (orchPc = "reload" => lists[buffer] = <<>>)

\* C6 witness: two flushes have happened, both of batches that hold records,
\* and records were taken between them.
C6_Witness ==
    /\ Len(threads) = 2
    /\ Batch(1) # <<>>
    /\ Batch(2) # <<>>

\* C7: the t-th flush happens at the count t * nb_game_in_file and holds the
\* records of exactly the nb_game_in_file results taken since the flush
\* before; there is no flush at any other count, so outside the flush step the
\* number of flushes is the number of multiples passed.
C7_FlushAtMultiples ==
    /\ \A t \in 1..Len(threads) :
          /\ t * NbGameInFile <= game_idx
          /\ Batch(t) = GroupRecords(t)
    /\ (orchPc \in {"init", "wait", "reload", "submit"} =>
          Len(threads) = game_idx \div NbGameInFile)

\* C7 witness: nb_game_in_file games, each with records, have been taken and
\* exactly one flush has occurred, holding the records of all of them.
C7_Witness ==
    /\ game_idx = NbGameInFile
    /\ Len(threads) = 1
    /\ \A i \in 1..NbGameInFile : result[consumed[i]].data # <<>>
    /\ \A i \in 1..NbGameInFile :
          Range(result[consumed[i]].data) \subseteq Range(Batch(1))
    /\ lists[buffer] = <<>>

\* C8 (as claimed): while the write of a batch has not succeeded, the
\* Orchestrator still holds the records of that batch.
C8_BatchKeptUntilWritten ==
    \A t \in 1..Len(threads) :
        threads[t].status # "written" =>
            Range(Batch(t)) \subseteq Range(lists[buffer])

\* C9: the games submitted and not yet taken by the loop never number more
\* than max_processes.
C9_InFlightBounded ==
    Len(futures) <= MaxProcesses

\* C9 witness: a replacement game is in flight and running, after others.
C9_Witness ==
    /\ Len(futures) = MaxProcesses
    /\ game_idx >= 2
    /\ gstate[Head(futures)] = "playing"

\* C10: every record in the buffer is of a game that ran to completion and
\* returned; a game still running or ended by a fault has none in it.
C10_BufferFromCompleted ==
    \A i \in 1..Len(lists[buffer]) : gstate[lists[buffer][i][1]] = "returned"

\* C10 witness: the buffer holds records of returned games while a game that
\* has played a ply, and so has a record of its own, is still running.
C10_Witness ==
    /\ lists[buffer] # <<>>
    /\ \E g \in Games : gstate[g] = "playing" /\ white_moves[g] # <<>>

\* The counters of a game in its loop: failed_play never exceeds 50, a game
\* whose last attempts failed fewer than 50 times in a row goes on, an
\* adjudication is either at 50 failures in a row or at the length limit, and
\* a game that ends with no ply played ends with both counters at 50.
C11_Counters(g) ==
    /\ failed_play[g] <= FailedPlayLimit
    /\ failed_play[g] <= total_failed_plays[g]
    /\ (failed_play[g] = FailedPlayLimit => env[g].done /\ env[g].adjudicated)
    /\ (failed_play[g] \in 1..(FailedPlayLimit - 1) => ~env[g].done)
    /\ (env[g].adjudicated =>
          failed_play[g] = FailedPlayLimit \/ env[g].num_halfmoves >= MaxGameLength)
    /\ (env[g].done /\ env[g].num_halfmoves = 0 =>
          /\ failed_play[g] = FailedPlayLimit
          /\ total_failed_plays[g] = FailedPlayLimit
          /\ move[g] = 0)

\* One iteration: a successful move resets failed_play and leaves
\* total_failed_plays as it is; a failed one adds one to both.
C11_Step(g) ==
    /\ (move'[g] = move[g] + 1 =>
          failed_play'[g] = 0 /\ total_failed_plays'[g] = total_failed_plays[g])
    /\ (gstate'[g] = "playing" /\ gstate[g] = "playing" /\ move'[g] = move[g] /\ env'[g] # env[g] =>
          /\ failed_play'[g] = failed_play[g] + 1
          /\ total_failed_plays'[g] = total_failed_plays[g] + 1)
    /\ (gstate'[g] = "playing" /\ gstate[g] = "playing" =>
          total_failed_plays'[g] >= total_failed_plays[g])

\* C11: a game is adjudicated for illegal actions exactly when 50 attempts in
\* a row have failed: a successful move resets the consecutive counter while
\* the total counter keeps growing, the consecutive counter never exceeds 50,
\* and a game in which every action is illegal ends adjudicated after exactly
\* 50 attempts with ply count 0 and total-failure counter 50.
C11_AdjudicatedAtFifty ==
    /\ [](\A g \in Games : gstate[g] = "playing" => C11_Counters(g))
    /\ [][\A g \in Games : C11_Step(g)]_vars

\* C11 witness: a game in which every action was illegal has left its loop,
\* adjudicated, with no ply played and both counters at 50.
C11_Witness ==
    \E g \in Games :
        /\ gstate[g] = "playing"
        /\ env[g].done /\ env[g].adjudicated
        /\ env[g].num_halfmoves = 0 /\ move[g] = 0
        /\ failed_play[g] = FailedPlayLimit
        /\ total_failed_plays[g] = FailedPlayLimit

\* The records the two selectors of game g hold.
RecordCount(g) == Len(white_moves[g]) + Len(black_moves[g])

\* An iteration of game g's loop that adds a record has applied a ply.
C12_Step(g) ==
    (gstate[g] = "playing" /\ gstate'[g] = "playing" /\ RecordCount(g)' > RecordCount(g)) =>
        env'[g].num_halfmoves = env[g].num_halfmoves + 1

\* C12: a game that returned with no ply applied returned an empty record
\* list, and no list of the Orchestrator holds a record of it: a record is
\* added only by an iteration that applies a ply.
C12_NoPlyNoRecords ==
    /\ [](\A g \in Games :
            (gstate[g] = "returned" /\ env[g].num_halfmoves = 0) =>
                /\ result[g].data = <<>>
                /\ \A k \in 1..Len(lists) :
                      \A i \in 1..Len(lists[k]) : lists[k][i][1] # g)
    /\ [][\A g \in Games : C12_Step(g)]_vars

\* C12 witness: a game adjudicated at the failure threshold with no ply played
\* has returned and the loop has taken its result.
C12_Witness ==
    \E i \in 1..Len(consumed) :
        /\ gstate[consumed[i]] = "returned"
        /\ env[consumed[i]].num_halfmoves = 0
        /\ env[consumed[i]].adjudicated
        /\ orchPc \in {"submit", "flush"}

\* An iteration of game g's loop that applies a ply starts below the limit.
C13_Step(g) ==
    env'[g].num_halfmoves > env[g].num_halfmoves =>
        /\ env[g].num_halfmoves < MaxGameLength
        /\ env'[g].num_halfmoves = env[g].num_halfmoves + 1

\* C13: with max_game_length >= 1 no game has more plies than
\* max_game_length: a game whose ply count has reached the limit is done
\* and adjudicated, so no further action is applied, and a returned game has
\* at most max_game_length plies and records.
C13_LengthBounded ==
    /\ [](\A g \in Games :
            /\ env[g].num_halfmoves <= MaxGameLength
            /\ move[g] <= MaxGameLength
            /\ (env[g].num_halfmoves >= MaxGameLength =>
                  env[g].done /\ env[g].adjudicated)
            /\ (gstate[g] = "returned" => Len(result[g].data) <= MaxGameLength))
    /\ [][\A g \in Games : C13_Step(g)]_vars

\* C13 witness: a game has returned after max_game_length plies.
C13_Witness ==
    \E g \in Games :
        /\ gstate[g] = "returned"
        /\ env[g].num_halfmoves = MaxGameLength
        /\ Len(result[g].data) = MaxGameLength

\* The side that moves at the k-th place of a game's record list.
SideAt(k) == IF k % 2 = 1 THEN "w" ELSE "b"

\* The return of game g: the list it returns is made of the two sides' lists,
\* white's i-th record at place 2i - 1 and black's i-th at place 2i.
C17_Return(g) ==
    (gstate[g] = "playing" /\ gstate'[g] = "returned") =>
        /\ Len(result'[g].data) = RecordCount(g)
        /\ \A i \in 1..Len(white_moves[g]) :
              result'[g].data[2 * i - 1] = white_moves[g][i]
        /\ \A i \in 1..Len(black_moves[g]) :
              result'[g].data[2 * i] = black_moves[g][i]

SideRecords(d, side) == SelectSeq(d, LAMBDA r : r[2] = side)

InFlight == {g \in Games : gstate[g] \in {"queued", "playing"}}

\* C14: whenever the Orchestrator is at its call of
\* reload_best_model_weight_if_changed, no game is in flight: no future is
\* outstanding and no game is queued or between its borrow and its release,
\* and no game starts or ends while the call runs.
C14_ReloadWithNoGame ==
    /\ [](orchPc = "reload" => (futures = <<>> /\ InFlight = {}))
    /\ [][orchPc = "reload" => (gstate' = gstate /\ pipes' = pipes)]_vars

\* C14 witness: the Orchestrator is at its second reload, after four games.
C14_Witness ==
    /\ orchPc = "reload"
    /\ Len(threads) = 2
    /\ lists[threads[2].args] # <<>>

\* C15: the i-th result the loop takes is that of the i-th submitted game:
\* each result() taken is that of the oldest outstanding future, and the
\* futures outstanding are the games submitted after those taken, in order.
C15_SubmissionOrder ==
    /\ [](/\ \A i \in 1..Len(consumed) : consumed[i] = i
          /\ \A i \in 1..Len(futures) : futures[i] = Len(consumed) + i)
    /\ [][consumed' # consumed =>
            (consumed' = Append(consumed, Len(consumed) + 1)
                /\ futures # <<>> /\ Head(futures) = Len(consumed) + 1)]_vars

\* C15 witness: the results of three games with records have been taken and
\* their records are in the Orchestrator's lists in the order of submission.
C15_Witness ==
    /\ Len(consumed) = 3
    /\ \A i \in 1..3 : result[consumed[i]].data # <<>>
    /\ ConsumedRecords = result[1].data \o result[2].data \o result[3].data

\* C19: the list handed to a writer thread is never changed afterwards and is
\* never the list self.buffer refers to, so what the loop appends after a
\* flush goes to another list.
C19_BatchFrozen ==
    /\ [](\A t \in 1..Len(threads) : threads[t].args # buffer)
    /\ [][\A t \in 1..Len(threads) :
            lists'[threads[t].args] = lists[threads[t].args]]_vars

\* C19 witness: records have been appended to the buffer after a flush while
\* the writer thread of that flush has not run yet.
C19_Witness ==
    /\ Len(threads) = 1
    /\ threads[1].status = "running"
    /\ Batch(1) # <<>>
    /\ lists[buffer] # <<>>

\* C20: a game about to execute its borrow finds a channel in the pool and
\* takes it, so no game has failed for want of a channel (a game ended by a
\* fault keeps the channel it borrowed), and the games between borrow and
\* release never number more than the channels created at startup.  It holds
\* in every run, the fault-free ones among them.
C20_BorrowFindsChannel ==
    /\ [](/\ \A g \in Games : gstate[g] = "queued" => cur_pipes # <<>>
          /\ \A g \in Games : gstate[g] = "failed" => pipes[g] # {}
          /\ Cardinality(Running) <= MaxProcesses)
    /\ [][\A g \in Games :
            (gstate[g] = "queued" /\ gstate'[g] # "queued") =>
                (gstate'[g] = "playing" /\ pipes'[g] # {}
                    /\ Len(cur_pipes') = Len(cur_pipes) - 1)]_vars

\* C20 witness: a replacement game has borrowed a channel that an earlier game
\* gave back, in a run without faults.
C20_Witness ==
    \E g \in Games :
        /\ g >= 3
        /\ gstate[g] = "playing"
        /\ Len(cur_pipes) = MaxProcesses - 1
        /\ Abandoned = {}

\* The measure of a game in its loop: the plies left before the length limit,
\* then the failures left before the failure threshold.
C18_Variant(g) ==
    (MaxGameLength - env[g].num_halfmoves) * (FailedPlayLimit + 1)
        + (FailedPlayLimit - failed_play[g])

\* A step that is an iteration of game g's loop.
C18_Iteration(g) ==
    /\ gstate[g] = "playing"
    /\ gstate'[g] = "playing"
    /\ <<env[g], move[g], failed_play[g], total_failed_plays[g]>>' #
          <<env[g], move[g], failed_play[g], total_failed_plays[g]>>

\* C18: provided every selector call returns, every game that has started
\* returns: each iteration of its loop applies a move or fails, which lowers
\* a measure that is never negative (at most max_game_length moves, at most
\* 50 failures in a row), so the loop has no infinite run.
C18_GameTerminates ==
    /\ \A g \in Games : (gstate[g] = "playing") ~> (gstate[g] = "returned")
    /\ [][\A g \in Games :
            C18_Iteration(g) =>
                (C18_Variant(g)' < C18_Variant(g) /\ C18_Variant(g)' >= 0)]_vars

\* C18 witness: a game that played a ply and then failed 50 times in a row has
\* returned.
C18_Witness ==
    \E g \in Games :
        /\ gstate[g] = "returned"
        /\ env[g].adjudicated
        /\ env[g].num_halfmoves \in 1..(MaxGameLength - 1)

\* The files the sweep deleted: those of its listing no longer on disk.
Deleted == {listed[i] : i \in 1..Len(listed)} \ {files[i] : i \in 1..Len(files)}

\* C16: given a listing, oldest first, of more than max_file_num files,
\* remove_play_data deletes exactly count - max_file_num of them, the oldest
\* ones, and leaves the newest max_file_num as they were; given max_file_num
\* files or fewer it deletes nothing.
C16_SweepKeepsNewest ==
    orchPc = "swept" =>
        IF Len(listed) > MaxFileNum
        THEN /\ Cardinality(Deleted) = Len(listed) - MaxFileNum
             /\ Deleted = {listed[i] : i \in 1..(Len(listed) - MaxFileNum)}
             /\ files = SubSeq(listed, Len(listed) - MaxFileNum + 1, Len(listed))
        ELSE files = listed

\* C16 witness: a sweep of more than max_file_num files has run and deleted
\* more than one file.
C16_Witness ==
    /\ orchPc = "swept"
    /\ Len(listed) > MaxFileNum + 1
    /\ Len(files) = MaxFileNum

TypeOK ==
    /\ orchPc \in {"init", "wait", "flush", "reload", "submit", "crashed", "aborted",
                  "sweep", "swept"}
    /\ buffer \in 1..Len(lists)
    /\ \A g \in Games : gstate[g] \in {"unsubmitted", "queued", "playing", "returned", "failed"}
====
